---- MODULE Spec2Model ----
(***************************************************************************)
(* Model of the gas classifier notebook (src/gas_classifier.ipynb): the    *)
(* cells of the notebook, run top to bottom, as a state machine over the   *)
(* notebook's global variables.                                            *)
(*                                                                         *)
(* Numbers are exact rationals <<n, d>> (d > 0, lowest terms); a missing   *)
(* value (NaN) is <<0, 0>>.  Labels are small integers, standing for the  *)
(* label strings in their sorted order.  A row of a table is a record      *)
(* [y |-> label, x |-> <<cell, ...>>].                                     *)
(***************************************************************************)
EXTENDS Integers, Sequences, FiniteSets

VARIABLES
    data,               \* the table read from the CSV file
    missing_values,     \* per feature column, the number of NaN cells
    data_cleaned,       \* the table after fillna
    class_distribution, \* value_counts(): sequence of <<label, count>>
    resampled_data,     \* the list of frames that pd.concat joins
    balanced_data,      \* the balanced, shuffled, re-indexed table
    train_index,        \* row positions of balanced_data in X_train / y_train
    test_index,         \* row positions of balanced_data in X_test / y_test
    scaler,             \* the StandardScaler: [n_fit, mean, var]
    X_train_scaled,     \* standardized training table (cells [c, v] = c / sqrt(v))
    X_test_scaled,      \* standardized test table
    correlation_matrix, \* squared Pearson correlations of the training columns
    relevant_features,  \* the selected columns, in column order
    X_train_relevant,   \* X_train_scaled restricted to relevant_features
    X_test_relevant,    \* X_test_scaled restricted to relevant_features
    svm_linear,         \* SVC(kernel='linear') with default parameters
    svm_rbf,            \* SVC(kernel='rbf') with default parameters
    grid_search_linear, \* GridSearchCV over param_grid_linear
    grid_search_rbf,    \* GridSearchCV over param_grid_rbf
    y_pred_linear,      \* predictions of grid_search_linear.best_estimator_
    y_pred_rbf,         \* predictions of grid_search_rbf.best_estimator_
    report,             \* the printed evaluation: accuracies of both models
    pc,                 \* the next cell to run, "done", or "error"
    error_cell,         \* the cell whose statement raised ("" if none)
    split_runs,         \* how many times the split cell has been executed
    mt42                \* the stream RandomState(42) produces

vars == <<data, missing_values, data_cleaned, class_distribution, resampled_data,
          balanced_data, train_index, test_index, scaler, X_train_scaled,
          X_test_scaled, correlation_matrix, relevant_features,
          X_train_relevant, X_test_relevant, svm_linear,
          svm_rbf, grid_search_linear, grid_search_rbf, y_pred_linear,
          y_pred_rbf, report, pc, error_cell, split_runs, mt42>>

----------------------------------------------------------------------------
(* Bounds of the model.                                                    *)

MaxRows == 4          \* rows of the small input tables
RawBase == 3          \* a raw draw of the random stream is in 0..RawBase-1
StreamDigits == 2     \* the stream repeats after this many draws
FullMajority == 6      \* majority rows of the full-run input tables
MaxMinority == 2      \* minority rows of the full-run input tables
MaxDeviating == 2     \* grid points whose CV outcome differs from the rest
MaxScore == 1         \* mean CV scores are 0..MaxScore (in arbitrary units)
MaxSplitRuns == 2     \* executions of the split cell

----------------------------------------------------------------------------
(* Exact rational arithmetic.                                              *)

NaN == <<0, 0>>

IsNaN(q) == q[2] = 0

Abs(i) == IF i < 0 THEN -i ELSE i

RECURSIVE GCD(_, _)
GCD(a, b) == IF b = 0 THEN a ELSE GCD(b, a % b)

Rat(n, d) ==
    LET s == IF d < 0 THEN -1 ELSE 1
        g == GCD(Abs(n), Abs(d))
    IN  IF n = 0 THEN <<0, 1>> ELSE <<(s * n) \div g, (s * d) \div g>>

Int2Rat(i) == <<i, 1>>

(* Sums over the least common denominator and products after cross
   cancellation: the intermediate integers stay small. *)
RAdd(p, q) ==
    LET g == GCD(p[2], q[2])
    IN  Rat(p[1] * (q[2] \div g) + q[1] * (p[2] \div g), (p[2] \div g) * q[2])

RNeg(p) == <<-p[1], p[2]>>

RSub(p, q) == RAdd(p, RNeg(q))

RMul(p, q) ==
    LET g1 == GCD(Abs(p[1]), q[2])
        g2 == GCD(Abs(q[1]), p[2])
    IN  Rat((p[1] \div g1) * (q[1] \div g2), (p[2] \div g2) * (q[2] \div g1))

RInv(p) == IF p[1] < 0 THEN <<-p[2], -p[1]>> ELSE <<p[2], p[1]>>

RDiv(p, q) == RMul(p, RInv(q))

RLess(p, q) == RSub(p, q)[1] < 0

RECURSIVE RSum(_)
RSum(s) == IF s = <<>> THEN <<0, 1>> ELSE RAdd(Head(s), RSum(Tail(s)))

NotNaN(q) == ~IsNaN(q)

Range(s) == {s[i] : i \in DOMAIN s}

Min(a, b) == IF a < b THEN a ELSE b

RECURSIVE SumSeq(_)
SumSeq(s) == IF s = <<>> THEN 0 ELSE Head(s) + SumSeq(Tail(s))

RECURSIVE Flatten(_)
Flatten(ss) == IF ss = <<>> THEN <<>> ELSE Head(ss) \o Flatten(Tail(ss))

----------------------------------------------------------------------------
(* Tables.                                                                 *)

NumCols(t) == IF t = <<>> THEN 0 ELSE Len(t[1].x)

Column(t, j) == [i \in DOMAIN t |-> t[i].x[j]]

Labels(t) == [i \in DOMAIN t |-> t[i].y]

RowsWithLabel(t, l) == SelectSeq(t, LAMBDA r : r.y = l)

CountLabel(t, l) == Len(RowsWithLabel(t, l))

----------------------------------------------------------------------------
(* The imputer cell.                                                       *)

(* Series.mean(): the mean over the non-missing cells, NaN if there are none. *)
Mean(col) ==
    LET present == SelectSeq(col, NotNaN)
    IN  IF present = <<>> THEN NaN
        ELSE RDiv(RSum(present), Int2Rat(Len(present)))

(* data.isnull().sum() over the feature columns. *)
IsNullSum(t) ==
    [j \in 1..NumCols(t) |-> Len(SelectSeq(Column(t, j), IsNaN))]

(* data.mean(numeric_only=True): the label column is not numeric. *)
ColumnMeans(t) == [j \in 1..NumCols(t) |-> Mean(Column(t, j))]

(* DataFrame.fillna(series): a missing cell takes its column's entry of the
   series; an entry that is itself NaN fills nothing. *)
FillNa(t, means) ==
    [i \in DOMAIN t |->
        [t[i] EXCEPT !.x = [j \in DOMAIN t[i].x |->
            IF IsNaN(t[i].x[j]) THEN means[j] ELSE t[i].x[j]]]]

----------------------------------------------------------------------------
(* The random stream.  RandomState(42) is a fixed but unknown sequence of   *)
(* raw draws; the model keeps it as the number mt42, whose digits in base   *)
(* RawBase are the draws (the sequence repeats after StreamDigits draws).   *)
(* Every call site of the notebook passes random_state=42, so each starts   *)
(* at the first draw of the same stream.                                    *)

RECURSIVE Pow(_, _)
Pow(b, e) == IF e = 0 THEN 1 ELSE b * Pow(b, e - 1)

Streams == 0..(Pow(RawBase, StreamDigits) - 1)

(* The k-th raw draw (k >= 1) of the stream. *)
Draw(stream, k) == (stream \div Pow(RawBase, (k - 1) % StreamDigits)) % RawBase

(* RandomState.randint(0, n, size): size positions in 1..n. *)
RandInt(stream, n, size) == [k \in 1..size |-> (Draw(stream, k) % n) + 1]

Swap(s, i, j) == [s EXCEPT ![i] = s[j], ![j] = s[i]]

(* RandomState.shuffle: for i = n down to 2, swap s[i] with s[j], j drawn
   from 1..i; the draws are those from position pos on. *)
RECURSIVE FisherYates(_, _, _, _)
FisherYates(s, i, stream, pos) ==
    IF i <= 1 THEN s
    ELSE FisherYates(Swap(s, i, (Draw(stream, pos) % i) + 1), i - 1, stream, pos + 1)

(* RandomState.permutation(s) starting at draw pos; it uses Len(s)-1 draws. *)
Permutation(s, stream, pos) == FisherYates(s, Len(s), stream, pos)

DrawsOfPermutation(n) == IF n > 1 THEN n - 1 ELSE 0

----------------------------------------------------------------------------
(* The balancer cell.                                                      *)

LabelSet(t) == {t[i].y : i \in DOMAIN t}

(* Series.value_counts(): one entry <<label, count>> per label that occurs,
   by descending count.  The order among labels of equal count is not
   specified by pandas: every such order is a possible result. *)
ValueCounts(t) ==
    LET L == LabelSet(t)
        n == Cardinality(L)
    IN  {vc \in [1..n -> {<<l, CountLabel(t, l)>> : l \in L}] :
            /\ \A i, j \in 1..n : i < j => vc[i] # vc[j]
            /\ \A i, j \in 1..n : i < j => vc[i][2] >= vc[j][2]}

(* class_distribution.idxmax(): the label of the first largest entry. *)
IdxMax(vc) ==
    LET best == CHOOSE i \in DOMAIN vc :
                    /\ \A j \in DOMAIN vc : vc[j][2] <= vc[i][2]
                    /\ \A j \in DOMAIN vc : vc[j][2] = vc[i][2] => i <= j
    IN  vc[best][1]

MaxCount(vc) == vc[1][2]

(* class_distribution[class_distribution != class_distribution.max()].index *)
MinorityClasses(vc) ==
    LET kept == SelectSeq(vc, LAMBDA e : e[2] # MaxCount(vc))
    IN  [i \in DOMAIN kept |-> kept[i][1]]

(* resample with replace=False, cut to the rows there are. *)
ResampleWithoutReplacement(frame, n_samples, stream) ==
    SubSeq(Permutation(frame, stream, 1), 1, Min(n_samples, Len(frame)))

(* sklearn.utils.resample(frame, replace=True, n_samples, random_state=42):
   the rows of frame at n_samples positions drawn from a fresh stream. *)
Resample(frame, n_samples, stream) ==
    LET idx == RandInt(stream, Len(frame), n_samples)
    IN  [k \in 1..n_samples |-> frame[idx[k]]]

(* The list resampled_data: the majority frame, then one resampled frame
   per minority class. *)
ResampledData(t, vc, stream) ==
    LET majority_class == IdxMax(vc)
        minority_classes == MinorityClasses(vc)
    IN  <<RowsWithLabel(t, majority_class)>> \o
        [k \in DOMAIN minority_classes |->
            Resample(RowsWithLabel(t, minority_classes[k]), MaxCount(vc), stream)]

(* DataFrame.sample(frac=1, random_state=42).reset_index(drop=True): the rows
   taken at a permutation of the positions. *)
SampleFrac1(t, stream) ==
    LET locs == Permutation([i \in DOMAIN t |-> i], stream, 1)
    IN  [i \in DOMAIN t |-> t[locs[i]]]

----------------------------------------------------------------------------
(* Estimator objects: an SVC and a GridSearchCV.  C is in tenths and gamma  *)
(* in thousandths; gamma = -1 stands for the default 'scale'.               *)

NoEstimator ==
    [kernel |-> "none", C |-> 0, gamma |-> 0, n_fit |-> 0, fit_rows |-> 0,
     fit_cols |-> <<>>, n_predict |-> 0]

NoSearch ==
    [n_cv_fits |-> 0, cv_results |-> <<>>, best_index |-> 0,
     best_estimator |-> NoEstimator]

NoScaler == [n_fit |-> 0, mean |-> <<>>, var |-> <<>>]

NoReport == [printed |-> 0, accuracy_linear |-> NaN, accuracy_rbf |-> NaN]

----------------------------------------------------------------------------
(* Input tables.                                                           *)

RECURSIVE SeqsUpTo(_, _)
SeqsUpTo(S, n) ==
    IF n = 0 THEN {<<>>}
    ELSE LET shorter == SeqsUpTo(S, n - 1)
         IN  shorter \cup {Append(s, e) : s \in {t \in shorter : Len(t) = n - 1}, e \in S}

LabelValues == {1, 2, 3}

SmallCells == {NaN, Int2Rat(0), Int2Rat(1)}

(* Tables of up to MaxRows rows whose single feature is the row number:
   every row is distinct, the labels are arbitrary. *)
LabelledInputs ==
    {[i \in DOMAIN ls |-> [y |-> ls[i], x |-> <<Int2Rat(i)>>]] :
        ls \in SeqsUpTo(LabelValues, MaxRows)}

(* Tables of up to MaxRows - 1 rows of two features with arbitrary cells,
   all rows carrying the same label. *)
CellInputs ==
    {[i \in DOMAIN cs |-> [y |-> 1, x |-> cs[i]]] :
        cs \in SeqsUpTo(SmallCells \X SmallCells, MaxRows - 1)}

----------------------------------------------------------------------------
(* The split cell: train_test_split(test_size=0.2, random_state=42,        *)
(* stratify=y), then StandardScaler.                                       *)

TestSizeNum == 1      \* test_size = 0.2 = TestSizeNum / TestSizeDen
TestSizeDen == 5

(* _validate_shuffle_split: n_test = ceil(test_size * n_samples) and
   n_train = n_samples - n_test.  (The float product 0.2 * n rounds to the
   exact quotient whenever 5 divides n, so the ceiling is the exact one.) *)
NTest(n) == (n * TestSizeNum + TestSizeDen - 1) \div TestSizeDen

NTrain(n) == n - NTest(n)

RECURSIVE SortDesc(_)
SortDesc(S) ==
    IF S = {} THEN <<>>
    ELSE LET m == CHOOSE x \in S : \A z \in S : z <= x
         IN  <<m>> \o SortDesc(S \ {m})

RECURSIVE SortAsc(_)
SortAsc(S) ==
    IF S = {} THEN <<>>
    ELSE LET m == CHOOSE x \in S : \A z \in S : x <= z
         IN  <<m>> \o SortAsc(S \ {m})

(* The loop of _approximate_mode over the distinct remainders, largest
   first: the classes that share a remainder get one more draw each, and
   when there are more of them than draws left, rng.choice picks which. *)
RECURSIVE AddRemainders(_, _, _, _, _, _)
AddRemainders(floored, remainder, values, need, stream, pos) ==
    IF need = 0 \/ values = <<>> THEN [counts |-> floored, pos |-> pos]
    ELSE LET inds == SortAsc({i \in DOMAIN remainder : remainder[i] = Head(values)})
             add_now == Min(Len(inds), need)
             chosen == Range(SubSeq(Permutation(inds, stream, pos), 1, add_now))
             bumped == [i \in DOMAIN floored |->
                           IF i \in chosen THEN floored[i] + 1 ELSE floored[i]]
         IN  AddRemainders(bumped, remainder, Tail(values), need - add_now,
                           stream, pos + DrawsOfPermutation(Len(inds)))

(* _approximate_mode(class_counts, n_draws, rng): n_draws split over the
   classes in proportion to class_counts, rounding by largest remainder. *)
ApproximateMode(class_counts, n_draws, stream, pos) ==
    LET total == SumSeq(class_counts)
        floored == [i \in DOMAIN class_counts |-> (class_counts[i] * n_draws) \div total]
        remainder == [i \in DOMAIN class_counts |-> (class_counts[i] * n_draws) % total]
    IN  AddRemainders(floored, remainder, SortDesc(Range(remainder)),
                      n_draws - SumSeq(floored), stream, pos)

(* The per-class loop of StratifiedShuffleSplit._iter_indices: each class's
   positions are permuted; the first n_i go to train, the next t_i to test. *)
RECURSIVE TakePerClass(_, _, _, _, _, _, _, _)
TakePerClass(class_indices, n_i, t_i, i, train, test, stream, pos) ==
    IF i > Len(class_indices) THEN [train |-> train, test |-> test, pos |-> pos]
    ELSE LET perm == Permutation(class_indices[i], stream, pos)
         IN  TakePerClass(class_indices, n_i, t_i, i + 1,
                          train \o SubSeq(perm, 1, n_i[i]),
                          test \o SubSeq(perm, n_i[i] + 1, n_i[i] + t_i[i]),
                          stream, pos + DrawsOfPermutation(Len(perm)))

(* The conditions under which train_test_split raises ValueError. *)
SplitRaises(y) ==
    LET n == Len(y)
        classes == Range(y)
    IN  \/ n = 0
        \/ NTrain(n) = 0
        \/ \E c \in classes : Cardinality({i \in DOMAIN y : y[i] = c}) < 2
        \/ NTrain(n) < Cardinality(classes)
        \/ NTest(n) < Cardinality(classes)

(* StratifiedShuffleSplit on the label column y with the given stream: the
   row positions of the training and of the test subset. *)
StratifiedShuffleSplit(y, stream) ==
    LET n == Len(y)
        classes == SortAsc(Range(y))
        class_indices == [k \in DOMAIN classes |->
                             SortAsc({i \in DOMAIN y : y[i] = classes[k]})]
        class_counts == [k \in DOMAIN classes |-> Len(class_indices[k])]
        first == ApproximateMode(class_counts, NTrain(n), stream, 1)
        remaining == [k \in DOMAIN classes |-> class_counts[k] - first.counts[k]]
        second == ApproximateMode(remaining, NTest(n), stream, first.pos)
        taken == TakePerClass(class_indices, first.counts, second.counts, 1,
                              <<>>, <<>>, stream, second.pos)
        train == Permutation(taken.train, stream, taken.pos)
        test == Permutation(taken.test, stream,
                            taken.pos + DrawsOfPermutation(Len(taken.train)))
    IN  [train |-> train, test |-> test]

(* random_state=None: the process-wide generator, which has moved on at
   every execution of the cell. *)
UnseededSplitStream == mt42 + split_runs

(* The stream train_test_split draws from: random_state=42 makes a fresh
   RandomState(42) at every call. *)
SplitStream == mt42

(* X.loc[index]: the feature rows at the given positions. *)
FeatureRows(t, index) == [i \in DOMAIN index |-> t[index[i]].x]

LabelsAt(t, index) == [i \in DOMAIN index |-> t[index[i]].y]

MatCols(m) == IF m = <<>> THEN 0 ELSE Len(m[1])

MatColumn(m, j) == [i \in DOMAIN m |-> m[i][j]]

(* The population variance over the non-missing cells (np.nanvar). *)
Variance(col) ==
    LET mu == Mean(col)
        present == SelectSeq(col, NotNaN)
    IN  IF present = <<>> THEN NaN
        ELSE Mean([i \in DOMAIN present |->
                      RMul(RSub(present[i], mu), RSub(present[i], mu))])

(* scaler.fit on the whole table X, before or regardless of the split. *)
FitOnWholeTable(t, train, test) == FeatureRows(t, train \o test)

(* The table the scaler is fitted on: X_train. *)
ScalerFitTable(t, train, test) == FeatureRows(t, train)

(* StandardScaler.fit(X): per-column mean_ and var_. *)
StandardScalerFit(X) ==
    [n_fit |-> 1,
     mean |-> [j \in 1..MatCols(X) |-> Mean(MatColumn(X, j))],
     var |-> [j \in 1..MatCols(X) |-> Variance(MatColumn(X, j))]]

(* StandardScaler.transform(X): (x - mean_) / scale_, where scale_ is
   sqrt(var_), or 1 for a column of zero variance.  A scaled cell is kept
   as <<c, v>>, standing for the real number c / sqrt(v). *)
StandardScalerTransform(sc, X) ==
    [i \in DOMAIN X |-> [j \in DOMAIN X[i] |->
        IF IsNaN(X[i][j]) \/ IsNaN(sc.mean[j]) THEN <<NaN, Int2Rat(1)>>
        ELSE <<RSub(X[i][j], sc.mean[j]),
               IF sc.var[j] = Int2Rat(0) THEN Int2Rat(1) ELSE sc.var[j]>>]]

----------------------------------------------------------------------------
(* The feature selection cell.                                             *)

CorrThresholdNum == 1     \* the threshold 0.5 = CorrThresholdNum / CorrThresholdDen
CorrThresholdDen == 2

(* Pearson correlation of two columns, as pandas computes it: over the rows
   where both are present, NaN when there is no such row or a column is
   constant there.  The result is <<sign, r^2>>: r itself is irrational.
   The columns hold the numerators c of scaled cells c / sqrt(v); v is one
   number per column and cancels in the quotient. *)
Pearson(a, b) ==
    LET both == SelectSeq([i \in DOMAIN a |-> i],
                          LAMBDA i : NotNaN(a[i]) /\ NotNaN(b[i]))
        xa == [k \in DOMAIN both |-> a[both[k]]]
        xb == [k \in DOMAIN both |-> b[both[k]]]
        ma == Mean(xa)
        mb == Mean(xb)
        sab == RSum([k \in DOMAIN both |-> RMul(RSub(xa[k], ma), RSub(xb[k], mb))])
        saa == RSum([k \in DOMAIN both |-> RMul(RSub(xa[k], ma), RSub(xa[k], ma))])
        sbb == RSum([k \in DOMAIN both |-> RMul(RSub(xb[k], mb), RSub(xb[k], mb))])
    IN  IF both = <<>> THEN <<0, NaN>>
        ELSE IF saa[1] = 0 \/ sbb[1] = 0 THEN <<0, NaN>>
        ELSE <<IF sab[1] < 0 THEN -1 ELSE IF sab[1] = 0 THEN 0 ELSE 1,
               RMul(RDiv(sab, saa), RDiv(sab, sbb))>>

Numerators(scaled, j) == [i \in DOMAIN scaled |-> scaled[i][j][1]]

(* The columns the correlation matrix is computed over: those of the
   standardized training table (the label column was dropped from X). *)
CorrColumns(scaled, y) == [j \in 1..MatCols(scaled) |-> Numerators(scaled, j)]

(* The correlations between different columns only. *)
CorrOffDiagonal(cols) ==
    [a \in DOMAIN cols |-> [b \in DOMAIN cols |->
        IF a = b THEN <<0, NaN>> ELSE Pearson(cols[a], cols[b])]]

(* DataFrame.corr(): the matrix of pairwise correlations. *)
Corr(cols) == [a \in DOMAIN cols |-> [b \in DOMAIN cols |-> Pearson(cols[a], cols[b])]]

RECURSIVE RMaxSeq(_)
RMaxSeq(s) ==
    IF Len(s) = 1 THEN Head(s)
    ELSE LET m == RMaxSeq(Tail(s)) IN IF RLess(m, Head(s)) THEN Head(s) ELSE m

(* correlation_matrix.abs().max(): per column, the largest |r| over the rows,
   skipping NaN; NaN for a column of NaN only.  Kept squared. *)
AbsMax(cm) ==
    [b \in DOMAIN cm |->
        LET present == SelectSeq([a \in DOMAIN cm |-> cm[a][b][2]], NotNaN)
        IN  IF present = <<>> THEN NaN ELSE RMaxSeq(present)]

(* |r| > 0.5, on the square; a comparison with NaN is False. *)
ExceedsThreshold(r2) ==
    /\ NotNaN(r2)
    /\ RLess(Rat(CorrThresholdNum * CorrThresholdNum, CorrThresholdDen * CorrThresholdDen), r2)

(* correlation_matrix.columns[correlation_matrix.abs().max() > 0.5] *)
RelevantFeatures(cm) ==
    SelectSeq([j \in DOMAIN cm |-> j], LAMBDA j : ExceedsThreshold(AbsMax(cm)[j]))

(* frame[relevant_features]: the columns projected, in the order given. *)
Project(scaled, features) ==
    [i \in DOMAIN scaled |-> [k \in DOMAIN features |-> scaled[i][features[k]]]]

----------------------------------------------------------------------------
(* The training cell.                                                      *)

NSplits == 5          \* cv=5

C_Grid == <<1, 10, 100, 1000>>          \* [0.1, 1, 10, 100] in tenths
Gamma_Grid == <<1000, 100, 10, 1>>      \* [1, 0.1, 0.01, 0.001] in thousandths

DefaultC == 10        \* SVC's default C = 1.0, in tenths

(* ParameterGrid(param_grid_linear), in iteration order. *)
param_grid_linear == [i \in DOMAIN C_Grid |-> [C |-> C_Grid[i], gamma |-> -1]]

(* ParameterGrid(param_grid_rbf): keys sorted, the last key varies fastest. *)
param_grid_rbf ==
    [i \in 1..(Len(C_Grid) * Len(Gamma_Grid)) |->
        [C |-> C_Grid[((i - 1) \div Len(Gamma_Grid)) + 1],
         gamma |-> Gamma_Grid[((i - 1) % Len(Gamma_Grid)) + 1]]]

(* SVC.fit(X, y) raises ValueError on a table without columns and on a
   label column with fewer than two classes. *)
SvcFitRaises(X, y) == MatCols(X) = 0 \/ Cardinality(Range(y)) < 2

(* SVC(kernel, C, gamma).fit(X, y) *)
FittedSvc(kernel, C, gamma, X, features) ==
    [kernel |-> kernel, C |-> C, gamma |-> gamma, n_fit |-> 1, fit_rows |-> Len(X),
     fit_cols |-> features, n_predict |-> 0]

UnfittedSvc(kernel) ==
    [kernel |-> kernel, C |-> DefaultC, gamma |-> -1, n_fit |-> 0, fit_rows |-> 0,
     fit_cols |-> <<>>, n_predict |-> 0]

(* StratifiedKFold(5).split raises ValueError when no class has 5 members. *)
KFoldRaises(y) ==
    \A c \in Range(y) : Cardinality({i \in DOMAIN y : y[i] = c}) < NSplits

(* The outcome of cross-validating one grid point: its mean score in
   0..MaxScore, -1 when some fold's fit failed (the mean is NaN), -2 when
   every fold's fit failed. *)
CvOutcomes == {-2, -1} \cup 0..MaxScore

MeanTestScore(o) == IF o < 0 THEN NaN ELSE Int2Rat(o)

(* rank_test_score: NaN means count as less than every score; rank 1 is the
   best mean, equal means share the smaller rank (rankdata, method 'min'). *)
RankTestScore(means) ==
    LET key(i) == IF IsNaN(means[i]) THEN -1 ELSE means[i][1]
    IN  [i \in DOMAIN means |->
            1 + Cardinality({j \in DOMAIN means : key(j) > key(i)})]

(* The last grid point of rank 1. *)
LastBestIndex(means) ==
    LET rank == RankTestScore(means)
    IN  CHOOSE i \in DOMAIN rank :
            /\ \A j \in DOMAIN rank : rank[i] <= rank[j]
            /\ \A j \in DOMAIN rank : rank[j] = rank[i] => j <= i

(* best_index_ = rank_test_score.argmin(): the first grid point of rank 1. *)
BestIndex(means) ==
    LET rank == RankTestScore(means)
    IN  CHOOSE i \in DOMAIN rank :
            /\ \A j \in DOMAIN rank : rank[i] <= rank[j]
            /\ \A j \in DOMAIN rank : rank[j] = rank[i] => i <= j

(* GridSearchCV.fit raises when every fit of every grid point failed. *)
AllFitsFailed(outcomes) == \A i \in DOMAIN outcomes : outcomes[i] = -2

(* The rows best_estimator_ is refitted on: the whole training table. *)
RefitRows(X) == X

(* GridSearchCV(SVC(kernel), grid, cv=5).fit(X, y), given the outcomes of
   the cross-validation of each grid point. *)
GridSearchFit(kernel, grid, outcomes, X, features) ==
    LET means == [i \in DOMAIN outcomes |-> MeanTestScore(outcomes[i])]
        best == BestIndex(means)
    IN  [n_cv_fits |-> NSplits * Len(grid),
         cv_results |-> means,
         best_index |-> best,
         best_estimator |-> FittedSvc(kernel, grid[best].C, grid[best].gamma,
                                      RefitRows(X), features)]

----------------------------------------------------------------------------
(* The evaluation cell.                                                    *)

(* Predictions taken from the default models. *)
DefaultModelsEvaluated == {"svm_linear", "svm_rbf"}

(* The objects the evaluation cell calls predict on. *)
EvaluatedModels == {"grid_search_linear", "grid_search_rbf"}

(* The ways a classifier answers: 0 for the true label of each row, a label
   for that label on every row. *)
PredictRules == {0, 1}

(* estimator.predict(X_test): the classifier is a black box; it answers
   each test row with its true label (rule 0) or always with class rule. *)
Predict(rule, y_true) == [i \in DOMAIN y_true |-> IF rule = 0 THEN y_true[i] ELSE rule]

(* accuracy_score(y_true, y_pred): the fraction of exact matches. *)
AccuracyScore(y_true, y_pred) ==
    IF y_true = <<>> THEN NaN
    ELSE Rat(Cardinality({i \in DOMAIN y_true : y_true[i] = y_pred[i]}), Len(y_true))

----------------------------------------------------------------------------
(* More input tables: tables large enough for the whole notebook to run.   *)
(* The majority label has FullMajority rows, a second label up to          *)
(* MaxMinority rows; each of the two feature columns follows a pattern.    *)

Patterns == {"label", "alternate", "constant", "missing", "gap"}

PatternCell(p, i, y) ==
    CASE p = "label"     -> Int2Rat(y)
      [] p = "alternate" -> Int2Rat(i % 2)
      [] p = "constant"  -> Int2Rat(1)
      [] p = "missing"   -> NaN
      [] p = "gap"       -> IF i % 3 = 1 THEN NaN ELSE Int2Rat((i \div 3) % 2)

FullRunTable(nB, p1, p2) ==
    [i \in 1..(FullMajority + nB) |->
        LET y == IF i <= FullMajority THEN 1 ELSE 2
        IN  [y |-> y, x |-> <<PatternCell(p1, i, y), PatternCell(p2, i, y)>>]]

FullRunInputs ==
    {FullRunTable(nB, p1, p2) : nB \in 0..MaxMinority, p1 \in Patterns, p2 \in Patterns}

----------------------------------------------------------------------------
(* Outcomes of the two grid searches: pairs <<linear, rbf>> of one         *)
(* cross-validation outcome per grid point.                                *)

RECURSIVE SubsetsUpTo(_, _)
SubsetsUpTo(S, m) ==
    IF m = 0 THEN {{}}
    ELSE LET P == SubsetsUpTo(S, m - 1) IN P \cup {q \cup {e} : q \in P, e \in S}

(* The vector of n outcomes that is f on the positions D and b elsewhere. *)
Outcomes(n, b, D, f) == [i \in 1..n |-> IF i \in D THEN f[i] ELSE b]

NLinear == Len(param_grid_linear)
NRbf == Len(param_grid_rbf)

(* Every grid point of a search with the same outcome. *)
UniformOutcomes(n) == {[i \in 1..n |-> o] : o \in {-2, 0}}

CoarseOutcomes == UniformOutcomes(NLinear) \X UniformOutcomes(NRbf)

----------------------------------------------------------------------------
(* The state before the first cell runs.                                   *)

InitRest ==
    /\ missing_values = <<>>
    /\ data_cleaned = <<>>
    /\ class_distribution = <<>>
    /\ resampled_data = <<>>
    /\ balanced_data = <<>>
    /\ train_index = <<>>
    /\ test_index = <<>>
    /\ scaler = NoScaler
    /\ X_train_scaled = <<>>
    /\ X_test_scaled = <<>>
    /\ correlation_matrix = <<>>
    /\ relevant_features = <<>>
    /\ X_train_relevant = <<>>
    /\ X_test_relevant = <<>>
    /\ svm_linear = NoEstimator
    /\ svm_rbf = NoEstimator
    /\ grid_search_linear = NoSearch
    /\ grid_search_rbf = NoSearch
    /\ y_pred_linear = <<>>
    /\ y_pred_rbf = <<>>
    /\ report = NoReport
    /\ pc = "impute"
    /\ error_cell = ""
    /\ split_runs = 0

Init ==
    /\ \/ data \in LabelledInputs /\ mt42 \in Streams
       \/ data \in CellInputs /\ mt42 = 0
       \/ data \in FullRunInputs /\ mt42 \in Streams
    /\ InitRest

(* Tables without missing cells, for the exploration of the split. *)
InitSplit ==
    /\ \/ data \in LabelledInputs /\ mt42 \in Streams
       \/ data \in FullRunInputs /\ mt42 \in Streams
    /\ InitRest

(* One fixed table and stream, for the exploration of the grid searches. *)
InitSearch ==
    /\ data = FullRunTable(1, "label", "alternate")
    /\ mt42 = 0
    /\ InitRest

----------------------------------------------------------------------------
(* The cells.                                                              *)

Raise(cell) == pc' = "error" /\ error_cell' = cell

ImputeCell ==
    /\ pc = "impute"
    /\ missing_values' = IsNullSum(data)
    /\ data_cleaned' = FillNa(data, ColumnMeans(data))
    /\ pc' = "balance"
    /\ UNCHANGED <<data, class_distribution, resampled_data, balanced_data,
                   train_index, test_index, scaler, X_train_scaled, X_test_scaled,
                   correlation_matrix, relevant_features, X_train_relevant,
                   X_test_relevant, svm_linear, svm_rbf, grid_search_linear,
                   grid_search_rbf, y_pred_linear, y_pred_rbf, report, error_cell,
                   split_runs, mt42>>

BalanceCell ==
    /\ pc = "balance"
    /\ \E vc \in ValueCounts(data_cleaned) :
          /\ class_distribution' = vc
          /\ IF vc = <<>>
             THEN \* idxmax of an empty Series raises ValueError
                  /\ Raise("balance")
                  /\ UNCHANGED <<resampled_data, balanced_data>>
             ELSE /\ resampled_data' = ResampledData(data_cleaned, vc, mt42)
                  /\ balanced_data' = SampleFrac1(Flatten(resampled_data'), mt42)
                  /\ pc' = "split"
                  /\ UNCHANGED error_cell
    /\ UNCHANGED <<data, missing_values, data_cleaned,
                   train_index, test_index, scaler, X_train_scaled, X_test_scaled,
                   correlation_matrix, relevant_features, X_train_relevant,
                   X_test_relevant, svm_linear, svm_rbf, grid_search_linear,
                   grid_search_rbf, y_pred_linear, y_pred_rbf, report,
                   split_runs, mt42>>

(* The statements of the split cell, when train_test_split does not raise. *)
SplitAndScale ==
    LET split == StratifiedShuffleSplit(Labels(balanced_data), SplitStream)
        fitted == StandardScalerFit(ScalerFitTable(balanced_data, split.train, split.test))
    IN  /\ train_index' = split.train
        /\ test_index' = split.test
        /\ scaler' = [fitted EXCEPT !.n_fit = 1]
        /\ X_train_scaled' =
               StandardScalerTransform(fitted, FeatureRows(balanced_data, split.train))
        /\ X_test_scaled' =
               StandardScalerTransform(fitted, FeatureRows(balanced_data, split.test))

SplitCell ==
    /\ pc = "split"
    /\ split_runs' = split_runs + 1
    /\ IF SplitRaises(Labels(balanced_data))
       THEN /\ Raise("split")
            /\ UNCHANGED <<train_index, test_index, scaler, X_train_scaled, X_test_scaled>>
       ELSE /\ SplitAndScale
            /\ pc' = "select"
            /\ UNCHANGED error_cell
    /\ UNCHANGED <<data, missing_values, data_cleaned, class_distribution,
                   resampled_data, balanced_data,
                   correlation_matrix, relevant_features, X_train_relevant,
                   X_test_relevant, svm_linear, svm_rbf, grid_search_linear,
                   grid_search_rbf, y_pred_linear, y_pred_rbf, report, mt42>>

(* The split cell executed once more, before the next cell. *)
RerunSplitCell ==
    /\ pc = "select"
    /\ split_runs < MaxSplitRuns
    /\ split_runs' = split_runs + 1
    /\ SplitAndScale
    /\ UNCHANGED <<data, missing_values, data_cleaned, class_distribution,
                   resampled_data, balanced_data,
                   correlation_matrix, relevant_features, X_train_relevant,
                   X_test_relevant, svm_linear, svm_rbf, grid_search_linear,
                   grid_search_rbf, y_pred_linear, y_pred_rbf, report, pc,
                   error_cell, mt42>>

y_train == LabelsAt(balanced_data, train_index)
y_test == LabelsAt(balanced_data, test_index)

SelectCell ==
    /\ pc = "select"
    /\ correlation_matrix' = Corr(CorrColumns(X_train_scaled, y_train))
    /\ relevant_features' = RelevantFeatures(correlation_matrix')
    /\ X_train_relevant' = Project(X_train_scaled, relevant_features')
    /\ X_test_relevant' = Project(X_test_scaled, relevant_features')
    /\ pc' = "train"
    /\ UNCHANGED <<data, missing_values, data_cleaned, class_distribution,
                   resampled_data, balanced_data, train_index, test_index, scaler,
                   X_train_scaled, X_test_scaled, svm_linear, svm_rbf,
                   grid_search_linear, grid_search_rbf, y_pred_linear, y_pred_rbf,
                   report, error_cell, split_runs, mt42>>

(* The training cell, given the outcomes o = <<linear, rbf>> of the two
   cross-validations. *)
TrainWith(o) ==
    /\ pc = "train"
    /\ IF SvcFitRaises(X_train_relevant, y_train)
       THEN \* svm_linear.fit raises: nothing after it runs
            /\ svm_linear' = UnfittedSvc("linear")
            /\ Raise("train")
            /\ UNCHANGED <<svm_rbf, grid_search_linear, grid_search_rbf>>
       ELSE /\ svm_linear' = FittedSvc("linear", DefaultC, -1, X_train_relevant,
                                       relevant_features)
            /\ svm_rbf' = FittedSvc("rbf", DefaultC, -1, X_train_relevant,
                                    relevant_features)
            /\ IF KFoldRaises(y_train)
               THEN \* grid_search_linear.fit raises in the fold splitter
                    /\ Raise("train")
                    /\ UNCHANGED <<grid_search_linear, grid_search_rbf>>
               ELSE   IF AllFitsFailed(o[1])
                      THEN /\ Raise("train")
                           /\ UNCHANGED <<grid_search_linear, grid_search_rbf>>
                      ELSE /\ grid_search_linear' =
                                  GridSearchFit("linear", param_grid_linear, o[1],
                                                X_train_relevant, relevant_features)
                           /\ IF AllFitsFailed(o[2])
                              THEN /\ Raise("train")
                                   /\ UNCHANGED grid_search_rbf
                              ELSE /\ grid_search_rbf' =
                                          GridSearchFit("rbf", param_grid_rbf, o[2],
                                                        X_train_relevant, relevant_features)
                                   /\ pc' = "evaluate"
                                   /\ UNCHANGED error_cell
    /\ UNCHANGED <<data, missing_values, data_cleaned, class_distribution,
                   resampled_data, balanced_data, train_index, test_index, scaler,
                   X_train_scaled, X_test_scaled, correlation_matrix,
                   relevant_features, X_train_relevant, X_test_relevant,
                   y_pred_linear, y_pred_rbf, report, split_runs, mt42>>

TrainCell == pc = "train" /\ \E o \in CoarseOutcomes : TrainWith(o)

(* The training cell with the outcomes of one search explored in detail: at
   most MaxDeviating grid points differ from a common outcome; the other
   search scores 0 everywhere. *)
TrainCellLinearDetail ==
    /\ pc = "train"
    /\ \E b \in CvOutcomes, D \in SubsetsUpTo(1..NLinear, MaxDeviating) :
        \E f \in [D -> CvOutcomes] :
            TrainWith(<<Outcomes(NLinear, b, D, f), [i \in 1..NRbf |-> 0]>>)

TrainCellRbfDetail ==
    /\ pc = "train"
    /\ \E b \in CvOutcomes, D \in SubsetsUpTo(1..NRbf, MaxDeviating) :
        \E f \in [D -> CvOutcomes] :
            TrainWith(<<[i \in 1..NLinear |-> 0], Outcomes(NRbf, b, D, f)>>)

Predicted(est, name) ==
    IF name \in EvaluatedModels THEN [est EXCEPT !.n_predict = @ + 1] ELSE est

EvalCell ==
    /\ pc = "evaluate"
    /\ \E rl \in PredictRules, rr \in PredictRules :
          /\ y_pred_linear' = Predict(rl, y_test)
          /\ y_pred_rbf' = Predict(rr, y_test)
    /\ svm_linear' = Predicted(svm_linear, "svm_linear")
    /\ svm_rbf' = Predicted(svm_rbf, "svm_rbf")
    /\ grid_search_linear' =
          [grid_search_linear EXCEPT
              !.best_estimator = Predicted(@, "grid_search_linear")]
    /\ grid_search_rbf' =
          [grid_search_rbf EXCEPT
              !.best_estimator = Predicted(@, "grid_search_rbf")]
    /\ report' = [printed |-> report.printed + 1,
                  accuracy_linear |-> AccuracyScore(y_test, y_pred_linear'),
                  accuracy_rbf |-> AccuracyScore(y_test, y_pred_rbf')]
    /\ pc' = "done"
    /\ UNCHANGED <<data, missing_values, data_cleaned, class_distribution,
                   resampled_data, balanced_data, train_index, test_index, scaler,
                   X_train_scaled, X_test_scaled, correlation_matrix,
                   relevant_features, X_train_relevant, X_test_relevant,
                   error_cell, split_runs, mt42>>

Next ==
    \/ ImputeCell
    \/ BalanceCell
    \/ SplitCell
    \/ SelectCell
    \/ TrainCell
    \/ EvalCell

Spec == Init /\ [][Next]_vars

(* The notebook up to the split cell, which may be executed again. *)
NextSplit ==
    \/ ImputeCell
    \/ BalanceCell
    \/ SplitCell
    \/ RerunSplitCell

SpecSplit == InitSplit /\ [][NextSplit]_vars

NextSearch ==
    \/ ImputeCell
    \/ BalanceCell
    \/ SplitCell
    \/ SelectCell
    \/ TrainCellLinearDetail
    \/ TrainCellRbfDetail
    \/ EvalCell

SpecSearch == InitSearch /\ [][NextSearch]_vars

----------------------------------------------------------------------------
(* Properties.                                                             *)

Balanced == pc \notin {"impute", "balance"} /\ error_cell # "balance"

SplitDone == Balanced /\ pc # "split" /\ error_cell # "split"

Selected == SplitDone /\ pc # "select"

Count(t, r) == Cardinality({i \in DOMAIN t : t[i] = r})

HasMissing(t) == \E i \in DOMAIN t : \E j \in DOMAIN t[i].x : IsNaN(t[i].x[j])

ColumnComplete(t, j) == \A i \in DOMAIN t : NotNaN(t[i].x[j])

(* C1: once the balancer has run, every label that occurs in the cleaned
   table has exactly the pre-balance majority count of rows in the balanced
   table, ties for the largest count included. *)
C1_EveryLabelHasMajorityCount ==
    Balanced =>
        \A l \in LabelSet(data_cleaned) :
            CountLabel(balanced_data, l) = MaxCount(class_distribution)

(* C2: once the imputer has run on a table with at least one missing cell,
   no feature column of the cleaned table has a missing cell, and every
   column that had none is unchanged. *)
C2_ImputedTableIsComplete ==
    (pc # "impute" /\ HasMissing(data)) =>
        /\ \A j \in 1..NumCols(data) : ColumnComplete(data_cleaned, j)
        /\ \A j \in 1..NumCols(data) :
               ColumnComplete(data, j) => Column(data_cleaned, j) = Column(data, j)

AllMissingColumn(t) ==
    t # <<>> /\ \E j \in 1..NumCols(t) : \A i \in DOMAIN t : IsNaN(t[i].x[j])

SingleLabel(t) == Cardinality(LabelSet(t)) = 1

(* C3: a table with an entirely missing column ends the run in an error at
   the imputer, a table with a single label value ends it in an error at
   the balancer; no later cell runs and no report is printed. *)
C3_DataQualityDefectsAbort ==
    /\ (AllMissingColumn(data) /\ pc # "impute") =>
           (pc = "error" /\ error_cell = "impute")
    /\ (SingleLabel(data) /\ ~AllMissingColumn(data) /\ pc \notin {"impute", "balance"}) =>
           (pc = "error" /\ error_cell = "balance")
    /\ (AllMissingColumn(data) \/ SingleLabel(data)) => report.printed = 0

(* The least k with 5 k >= n, written without NTest. *)
CeilFifth(n) == CHOOSE k \in 0..n : 5 * k >= n /\ (k = 0 \/ 5 * (k - 1) < n)

C4_Partition ==
    SplitDone =>
        LET n == Len(balanced_data) IN
        /\ Range(train_index) \cap Range(test_index) = {}
        /\ Range(train_index) \cup Range(test_index) = 1..n
        /\ Cardinality(Range(train_index)) = Len(train_index)
        /\ Cardinality(Range(test_index)) = Len(test_index)
        /\ Len(test_index) = CeilFifth(n)
        /\ Len(train_index) = n - CeilFifth(n)

C4_Sizes300 == NTrain(300) = 240 /\ NTest(300) = 60

C4_RerunReproduces ==
    RerunSplitCell => (train_index' = train_index /\ test_index' = test_index)

(* C4: after the split the train and test positions are disjoint, cover all
   N rows, the test subset has ceil(0.2 N) rows and the train subset the
   rest (300 rows: 240 and 60), and executing the split again on the same
   table reproduces the same assignment. *)
C4_SplitIsPartitionAndReproducible ==
    [](C4_Partition /\ C4_Sizes300) /\ [][C4_RerunReproduces]_vars

C4_Witness ==
    /\ SplitDone
    /\ split_runs >= 2
    /\ Len(test_index) >= 3
    /\ Cardinality(LabelSet(balanced_data)) >= 2

(* The balanced table with the feature cells of its test rows replaced by v:
   a run with the same training subset and another test subset. *)
OtherTestRows(v) ==
    [i \in DOMAIN balanced_data |->
        IF i \in Range(test_index)
        THEN [balanced_data[i] EXCEPT !.x = [j \in DOMAIN @ |-> v]]
        ELSE balanced_data[i]]

OtherCells == {NaN, Int2Rat(7)}

(* Right after the split and right after the selection: the scaler's mean
   and variance, and the selected features, are the same for every other
   content of the test rows. *)
C5_IndependentOfTestRows ==
    (SplitDone /\ pc \in {"select", "train"}) =>
        \A v \in OtherCells :
            LET other == OtherTestRows(v)
                fit == StandardScalerFit(ScalerFitTable(other, train_index, test_index))
                scaled == StandardScalerTransform(fit, FeatureRows(other, train_index))
            IN  /\ fit.mean = scaler.mean
                /\ fit.var = scaler.var
                /\ Selected =>
                      relevant_features =
                          RelevantFeatures(Corr(CorrColumns(scaled, y_train)))

C5_FittedOnceTestOnlyTransformed ==
    /\ ~SplitDone => scaler = NoScaler
    /\ SplitDone => scaler.n_fit = 1
    /\ (SplitDone /\ pc \in {"select", "train"}) =>
           X_test_scaled =
               StandardScalerTransform(scaler, FeatureRows(balanced_data, test_index))

(* The training and evaluation cells leave the scaler, the scaled tables,
   the split and the selected features as they are. *)
C5_NeverRecomputed ==
    pc \in {"train", "evaluate", "done", "error"} =>
        UNCHANGED <<scaler, X_train_scaled, X_test_scaled, relevant_features,
                    train_index, test_index, balanced_data>>

(* C5: the scaler is fitted once, after the split; its mean and variance,
   and the selected features, are those computed from the training rows,
   and they are the same for every other content of the test rows; the
   test table is the transform of the test rows by that scaler; nothing
   of this is computed again later in the run. *)
C5_FitOnTrainingSubsetOnly ==
    /\ [](C5_FittedOnceTestOnlyTransformed /\ C5_IndependentOfTestRows)
    /\ [][C5_NeverRecomputed]_vars

C5_Witness ==
    /\ pc = "done"
    /\ relevant_features # <<>>
    /\ \E v \in OtherCells : OtherTestRows(v) # balanced_data

SearchIsSound(gs, grid) ==
    LET means == gs.cv_results
        best == gs.best_index
        scored == {i \in DOMAIN means : NotNaN(means[i])}
    IN  /\ Len(means) = Len(grid)
        /\ gs.n_cv_fits = 5 * Len(grid)
        /\ best \in DOMAIN grid
        /\ gs.best_estimator.C = grid[best].C
        /\ gs.best_estimator.gamma = grid[best].gamma
        /\ scored # {} =>
              /\ best \in scored
              /\ \A i \in scored : ~RLess(means[best], means[i])
              /\ \A i \in scored : i < best => RLess(means[i], means[best])

(* C6: a grid search that has been fitted evaluated every point of its grid
   (4 linear, 16 radial) on 5 folds; the chosen point is a point of the
   grid, its mean score is the largest among the points that were scored,
   and no earlier point of the grid has the same score. *)
C6_GridSearchPicksFirstBest ==
    /\ Len(param_grid_linear) = 4
    /\ Len(param_grid_rbf) = 16
    /\ {g.C : g \in Range(param_grid_linear)} = {1, 10, 100, 1000}
    /\ {<<g.C, g.gamma>> : g \in Range(param_grid_rbf)} =
           {1, 10, 100, 1000} \X {1000, 100, 10, 1}
    /\ grid_search_linear # NoSearch => SearchIsSound(grid_search_linear, param_grid_linear)
    /\ grid_search_rbf # NoSearch => SearchIsSound(grid_search_rbf, param_grid_rbf)

C6_Witness ==
    /\ pc = "done"
    /\ grid_search_rbf.best_index > 4
    /\ \E i \in DOMAIN grid_search_rbf.cv_results :
          /\ i > grid_search_rbf.best_index
          /\ grid_search_rbf.cv_results[i] =
                 grid_search_rbf.cv_results[grid_search_rbf.best_index]
    /\ \E i \in DOMAIN grid_search_rbf.cv_results : IsNaN(grid_search_rbf.cv_results[i])

(* The squared correlation of training column j with the label column. *)
TargetCorrelation(j) ==
    Pearson(Numerators(X_train_scaled, j),
            [i \in DOMAIN train_index |-> Int2Rat(y_train[i])])[2]

(* C7: the selected features are exactly the columns whose absolute
   correlation with the label column exceeds 0.5, in column order. *)
C7_SelectedByTargetCorrelation ==
    Selected =>
        relevant_features =
            SelectSeq([j \in 1..MatCols(X_train_scaled) |-> j],
                      LAMBDA j : ExceedsThreshold(TargetCorrelation(j)))

FullModels ==
    {m \in {svm_linear, svm_rbf, grid_search_linear.best_estimator,
            grid_search_rbf.best_estimator} : m.n_fit > 0}

(* C8: at the end of a run exactly one model per kernel has been fitted on
   the full training table, and every such model has been evaluated once. *)
C8_OneModelPerConfiguration ==
    pc = "done" =>
        /\ \A k \in {"linear", "rbf"} :
              Cardinality({m \in FullModels : m.kernel = k}) = 1
        /\ \A m \in FullModels : m.n_predict = 1

(* C8, in the form the notebook satisfies: every fitted model was fitted
   once, on the whole training table restricted to the selected features;
   at the end of a run two
   models per kernel exist, the default one and the grid search's best
   one; the best ones carry the winning parameters and were asked for
   predictions once, the default ones never. *)
C8_TwoModelsPerKernelBestEvaluated ==
    /\ \A m \in FullModels :
          /\ m.n_fit = 1
          /\ m.fit_rows = Len(train_index)
          /\ m.fit_cols = relevant_features
    /\ svm_linear.n_predict = 0 /\ svm_rbf.n_predict = 0
    /\ pc # "done" => \A m \in FullModels : m.n_predict = 0
    /\ pc = "done" =>
          /\ svm_linear.n_fit = 1 /\ svm_linear.kernel = "linear"
          /\ svm_rbf.n_fit = 1 /\ svm_rbf.kernel = "rbf"
          /\ svm_linear.C = DefaultC /\ svm_rbf.C = DefaultC
          /\ grid_search_linear.best_estimator.kernel = "linear"
          /\ grid_search_rbf.best_estimator.kernel = "rbf"
          /\ grid_search_linear.best_estimator.C =
                 param_grid_linear[grid_search_linear.best_index].C
          /\ grid_search_rbf.best_estimator.C =
                 param_grid_rbf[grid_search_rbf.best_index].C
          /\ grid_search_rbf.best_estimator.gamma =
                 param_grid_rbf[grid_search_rbf.best_index].gamma
          /\ grid_search_linear.best_estimator.n_predict = 1
          /\ grid_search_rbf.best_estimator.n_predict = 1
          /\ Len(y_pred_linear) = Len(test_index)
          /\ Len(y_pred_rbf) = Len(test_index)
          /\ report.printed = 1

C8_Witness ==
    /\ pc = "done"
    /\ grid_search_linear.best_index > 1
    /\ Len(train_index) > 5
    /\ Cardinality(FullModels) = 4

(* C9: the balanced table holds every majority row of the cleaned table
   exactly once and, for each other label that is kept, majority-count rows
   each equal to a cleaned row of that label; it holds no other row, and
   the shuffle only permutes the concatenated rows. *)
C9_BalancedRowsComeFromCleanedRows ==
    Balanced =>
        LET majority == IdxMax(class_distribution)
            concat == Flatten(resampled_data)
        IN  /\ \A r \in Range(RowsWithLabel(data_cleaned, majority)) :
                   Count(balanced_data, r) = Count(data_cleaned, r)
            /\ \A l \in Range(MinorityClasses(class_distribution)) :
                   /\ CountLabel(balanced_data, l) = MaxCount(class_distribution)
                   /\ \A r \in Range(RowsWithLabel(balanced_data, l)) :
                          r \in Range(RowsWithLabel(data_cleaned, l))
            /\ \A r \in Range(balanced_data) :
                   /\ r \in Range(data_cleaned)
                   /\ r.y \in {majority} \cup Range(MinorityClasses(class_distribution))
            /\ Len(balanced_data) = Len(concat)
            /\ \A r \in Range(concat) \cup Range(balanced_data) :
                   Count(balanced_data, r) = Count(concat, r)

C9_Witness ==
    /\ pc = "split"
    /\ MaxCount(class_distribution) >= 2
    /\ Len(MinorityClasses(class_distribution)) >= 2
    /\ \E i, j \in DOMAIN balanced_data : i # j /\ balanced_data[i] = balanced_data[j]
    /\ balanced_data # Flatten(resampled_data)

(* Column j of the standardized training table takes two different values. *)
VariesInTraining(j) ==
    \E i, k \in DOMAIN X_train_scaled :
        /\ NotNaN(X_train_scaled[i][j][1])
        /\ NotNaN(X_train_scaled[k][j][1])
        /\ X_train_scaled[i][j][1] # X_train_scaled[k][j][1]

(* C10: the selected features are exactly the columns that are not constant
   in the standardized training table, in column order, whatever the
   correlations between different columns are. *)
C10_SelectedAreTheNonConstantColumns ==
    Selected =>
        relevant_features =
            SelectSeq([j \in 1..MatCols(X_train_scaled) |-> j],
                      LAMBDA j : VariesInTraining(j))

C10_Witness ==
    /\ pc = "train"
    /\ Len(relevant_features) = 2
    /\ ~ExceedsThreshold(correlation_matrix[1][2][2])

====
